---- MODULE Spec2Model ----
(***************************************************************************)
(* Sale submission (POST /api/sales), sale update (PUT /api/sales/:uuid),   *)
(* sale deletion (DELETE /api/sales/bulk-delete), product edit             *)
(* (PUT /api/products/:uuid), product deletion (DELETE /api/products/:uuid *)
(* and /bulk-delete) and stock adjustment (PUT /api/products/:uuid/stock)  *)
(* of the POS back end, over the MySQL tables products, product_sizes,     *)
(* sales and sale_items.                                                   *)
(*                                                                         *)
(* The tables are InnoDB tables used at the engine's default isolation     *)
(* level (the code never sets one): a plain SELECT is a consistent read    *)
(* from the read view the transaction takes at its first SELECT, overlaid  *)
(* with the transaction's own writes; UPDATE / DELETE / INSERT take        *)
(* exclusive row locks held until commit or rollback and work on the       *)
(* latest committed row version.  A transaction is modelled as a private   *)
(* write set that commit installs and rollback discards.                   *)
(*                                                                         *)
(* Every await of a handler that touches shared rows through a lock is a   *)
(* step of its own; consecutive consistent reads of one transaction are    *)
(* taken in one step (they read the same read view).                       *)
(***************************************************************************)
EXTENDS Integers, Sequences, FiniteSets, TLC

\* ---------------------------------------------------------------- bounds
MaxCalls == 2        \* requests one handler slot serves in a behaviour
MaxQty == 2          \* largest quantity of a line item / sell request
MaxStock == 2        \* largest stock value an input or the initial store has

\* ------------------------------------------------------------ vocabulary
Reqs == {"r1", "r2"}                 \* concurrently served requests
Products == {"p1", "p2"}             \* uuids present in table products
Ghost == "p9"                        \* a uuid absent from table products
Sizes == {"S", "M"}
NoSize == ""                         \* falsy selectedSize
Undefined == "undefined"             \* absent string field of a JSON body
NULL == "NULL"                       \* SQL NULL in a string column
Keys == Products \X Sizes            \* (product_id, size_name), uq_product_size
KeysOf(p) == {k \in Keys : k[1] = p}

\* JSON values of a numeric field: a number, a value Number() maps to NaN,
\* or absent
Num(n) == [t |-> "num", v |-> n]
NotANumber == [t |-> "nan"]
Absent == [t |-> "undefined"]
IsDefined(x) == x.t # "undefined"
IsNaN(x) == x.t # "num"              \* isNaN(Number(x))

Max(a, b) == IF a >= b THEN a ELSE b
Abs(a) == IF a < 0 THEN 0 - a ELSE a
TitleOf(p) == "title_" \o p          \* catalog title of product p
CodeOf(p) == "code_" \o p            \* catalog code of product p
ImageOf(p) == "image_" \o p          \* catalog image of product p
PriceOf(p) == IF p = "p1" THEN 3 ELSE 2   \* catalog price of product p

\* Row of table products as the store starts with it.
ProductRow(p) ==
  [title |-> TitleOf(p), code |-> CodeOf(p), price |-> PriceOf(p),
   image |-> ImageOf(p)]

\* x || 0 for a JSON number that may be absent.
OrZero(x) == IF x.t = "num" THEN x.v ELSE 0

VARIABLES
  products,        \* uuids of the rows of table products
  catalog,         \* committed rows of products: uuid -> title, code, price, image
  product_sizes,   \* committed rows of product_sizes: key -> stock
  sales,           \* committed rows of sales: sale_id -> header
  sale_items,      \* committed rows of sale_items: sale_id -> line items
  nextId,          \* AUTO_INCREMENT counter of sales.sale_id
  pc,              \* position of each handler
  req,             \* request body being served
  idx,             \* index of the line item the sale loop is at
  seen,            \* result of the handler's last SELECT stock (sizeRow)
  snap,            \* read view of the open transaction (none: << >>)
  wset,            \* uncommitted row versions written by the transaction
  wdel,            \* keys the transaction has deleted
  locks,           \* keys the transaction holds exclusive locks on
  witems,          \* uncommitted sale_items rows of the transaction
  wcat,            \* uncommitted versions of products rows of the transaction
  wsdel,           \* sale_ids whose rows the transaction has deleted
  saleId,          \* insertId of the sale header of the transaction
  txn,             \* "none", "open", "committed", "rolledback"
  resp,            \* response sent to the caller
  pre,             \* committed store when the call began (history)
  hist,            \* completed calls of the handler, oldest first, each with
                   \* the committed stock before and after it (history)
  calls            \* number of requests the handler has begun

vars == <<products, catalog, product_sizes, sales, sale_items, nextId, pc, req,
          idx, seen, snap, wset, wdel, locks, witems, wcat, wsdel, saleId, txn,
          resp, pre, hist, calls>>

store == <<products, catalog, product_sizes, sales, sale_items>>

EmptyTable == [k \in {} |-> 0]
NoInfo == [title |-> "", size |-> "", available |-> 0, requested |-> 0]
NoResp == [status |-> 0, error |-> "", info |-> NoInfo]
NoReq == [kind |-> "none"]

\* Stocks the store starts with: p1 has a row for S and, in some stores,
\* for M; p2 has a row for S only (p2/M is a size without a stock row).
InitStocks ==
  { [k \in {<<"p1", "S">>, <<"p1", "M">>, <<"p2", "S">>} |->
       IF k = <<"p1", "S">> THEN a ELSE IF k = <<"p1", "M">> THEN b ELSE 1]
    : a \in {1, MaxStock}, b \in {0, MaxStock} }
  \cup { [k \in {<<"p1", "S">>, <<"p2", "S">>} |->
           IF k = <<"p1", "S">> THEN a ELSE 1] : a \in {1, MaxStock} }

\* Stocks of a store in which p2 has no size defined.
LedgerStocks ==
  { [k \in {<<"p1", "S">>} |-> a] : a \in {1, MaxStock} }

InitFrom(stocks) ==
  /\ products = Products
  /\ catalog = [p \in Products |-> ProductRow(p)]
  /\ product_sizes \in stocks
  /\ sales = [i \in {} |-> 0]
  /\ sale_items = [i \in {} |-> 0]
  /\ nextId = 1
  /\ pc = [r \in Reqs |-> "idle"]
  /\ req = [r \in Reqs |-> NoReq]
  /\ idx = [r \in Reqs |-> 0]
  /\ seen = [r \in Reqs |-> << >>]
  /\ snap = [r \in Reqs |-> << >>]
  /\ wset = [r \in Reqs |-> EmptyTable]
  /\ wdel = [r \in Reqs |-> {}]
  /\ locks = [r \in Reqs |-> {}]
  /\ witems = [r \in Reqs |-> << >>]
  /\ wcat = [r \in Reqs |-> EmptyTable]
  /\ wsdel = [r \in Reqs |-> {}]
  /\ saleId = [r \in Reqs |-> 0]
  /\ txn = [r \in Reqs |-> "none"]
  /\ resp = [r \in Reqs |-> NoResp]
  /\ pre = [r \in Reqs |-> [sizes |-> product_sizes, sales |-> sales,
                            items |-> sale_items]]
  /\ hist = [r \in Reqs |-> << >>]
  /\ calls = [r \in Reqs |-> 0]

Init == InitFrom(InitStocks)

\* The store of the ledger and catalog runs.
InitLedger == InitFrom(LedgerStocks)

\* ------------------------------------------------- the store's semantics
\* Read view a consistent read of transaction r uses: the one it already
\* has, else the one this read creates from the committed rows.
ReadView(r) == IF snap[r] = << >> THEN product_sizes ELSE snap[r][1]

\* Read in which a size without a row reads as a row of stock 0.
SelectStockZeroIfMissing(r, k) ==
  IF k \in DOMAIN wset[r] THEN <<wset[r][k]>>
  ELSE IF k \in wdel[r] THEN <<0>>
  ELSE IF k \in DOMAIN ReadView(r) THEN <<ReadView(r)[k]>>
  ELSE <<0>>

\* SELECT stock FROM product_sizes WHERE product_id = ? AND size_name = ?
\* as a consistent read: own writes first, then the read view.  The result
\* is the list of rows found (<< >> or <<stock>>).
SelectStock(r, k) ==
  IF k \in DOMAIN wset[r] THEN <<wset[r][k]>>
  ELSE IF k \in wdel[r] THEN << >>
  ELSE IF k \in DOMAIN ReadView(r) THEN <<ReadView(r)[k]>>
  ELSE << >>

\* Row version a locking statement of r works on: own write, else the
\* latest committed version (not the read view).
HasLatest(r, k) ==
  \/ k \in DOMAIN wset[r]
  \/ k \notin wdel[r] /\ k \in DOMAIN product_sizes
LatestStock(r, k) ==
  IF k \in DOMAIN wset[r] THEN wset[r][k] ELSE product_sizes[k]

\* A store that locks the whole table: a locking statement waits while
\* any other transaction holds any lock.
LockFreeTable(r, K) == \A o \in Reqs \ {r} : locks[o] = {}

\* A locking statement on the keys K proceeds only when no other
\* transaction holds a lock on one of them; until then it waits.
LockFree(r, K) == \A o \in Reqs \ {r} : locks[o] \cap K = {}

WriteRow(tbl, k, v) ==
  [x \in DOMAIN tbl \cup {k} |-> IF x = k THEN v ELSE tbl[x]]

\* product_sizes after the commit of r.
Installed(r) ==
  [k \in (DOMAIN product_sizes \ wdel[r]) \cup DOMAIN wset[r] |->
     IF k \in DOMAIN wset[r] THEN wset[r][k] ELSE product_sizes[k]]

\* ------------------------------------------------------ handler plumbing
\* The handler of r sends response rsp and ends; t is the state its
\* transaction is left in.  finally { connection.release() }.
End(r, body, t, rsp) ==
  /\ pc' = [pc EXCEPT ![r] = "done"]
  /\ txn' = [txn EXCEPT ![r] = t]
  /\ resp' = [resp EXCEPT ![r] = rsp]
  /\ seen' = [seen EXCEPT ![r] = << >>]
  /\ snap' = [snap EXCEPT ![r] = << >>]
  /\ wset' = [wset EXCEPT ![r] = EmptyTable]
  /\ wdel' = [wdel EXCEPT ![r] = {}]
  /\ locks' = [locks EXCEPT ![r] = {}]
  /\ witems' = [witems EXCEPT ![r] = << >>]
  /\ wcat' = [wcat EXCEPT ![r] = EmptyTable]
  /\ wsdel' = [wsdel EXCEPT ![r] = {}]
  /\ hist' = [hist EXCEPT ![r] =
                Append(@, [req |-> body, status |-> rsp.status,
                           before |-> IF pc[r] \in {"idle", "done"}
                                      THEN product_sizes ELSE pre[r].sizes,
                           after |-> product_sizes])]

\* Rollback that undoes nothing: the statements executed so far stay, as
\* they would had they run outside the transaction.
RollbackKeepsWrites(r, code, error, info) ==
  /\ End(r, req[r], "rolledback", [status |-> code, error |-> error, info |-> info])
  /\ product_sizes' = Installed(r)
  /\ UNCHANGED <<products, catalog, sales, sale_items, nextId, req, idx, saleId,
                 pre, calls>>

\* await connection.rollback(); return res.status(code).json({message})
Rollback(r, code, error, info) ==
  /\ End(r, req[r], "rolledback", [status |-> code, error |-> error, info |-> info])
  /\ UNCHANGED <<store, nextId, req, idx, saleId, pre, calls>>

\* A handler slot takes a new request when it serves none.
CanBegin(r) ==
  /\ pc[r] \in {"idle", "done"}
  /\ calls[r] < MaxCalls

Begun(r, body) ==
  /\ req' = [req EXCEPT ![r] = body]
  /\ calls' = [calls EXCEPT ![r] = @ + 1]
  /\ pre' = [pre EXCEPT ![r] = [sizes |-> product_sizes, sales |-> sales,
                                items |-> sale_items]]

\* ------------------------------------------------- POST /api/sales
\* Validation that does not look at paymentMethod.
MissingSaleFieldsButMethod(body) ==
  \/ ~body.itemsIsArray
  \/ Len(body.items) = 0
  \/ ~IsDefined(body.totalAmount)

\* if (!items || !Array.isArray(items) || items.length === 0
\*     || totalAmount == null || !paymentMethod)
MissingSaleFields(body) ==
  \/ ~body.itemsIsArray
  \/ Len(body.items) = 0
  \/ ~IsDefined(body.totalAmount)
  \/ body.paymentMethod \in {Undefined, ""}

\* Manual row that keeps the product id the request carries.
ManualRowLinked(item) ==
  [product_id |-> item.productId,
   product_uuid |-> item.productId,
   title |-> item.title,
   code |-> item.code,
   image |-> "",
   full_size_image |-> "",
   selected_size |-> IF item.selectedSize = NoSize THEN "N/A" ELSE item.selectedSize,
   quantity |-> item.quantity,
   unit_price |-> item.unitPrice,
   discount |-> item.discount,
   final_price |-> OrZero(item.manualPrice) * item.quantity - item.discount]

\* Row of sale_items stored for a manual item (isManual === true).  The
\* numbers of an item are integers here, for which x || 0 is x; manualPrice
\* may be absent from the body.
ManualRow(item) ==
  [product_id |-> NULL,
   product_uuid |-> NULL,
   title |-> item.title,
   code |-> item.code,
   image |-> "",
   full_size_image |-> "",
   selected_size |-> IF item.selectedSize = NoSize THEN "N/A" ELSE item.selectedSize,
   quantity |-> item.quantity,
   unit_price |-> item.unitPrice,
   discount |-> item.discount,
   final_price |-> OrZero(item.manualPrice) * item.quantity - item.discount]

\* Row of sale_items stored for a catalog item: product_id is the one the
\* SELECT found, every other column is the field of the request.
CatalogRow(item) ==
  [product_id |-> item.productId,
   product_uuid |-> item.productId,
   title |-> item.title,
   code |-> item.code,
   image |-> item.image,
   full_size_image |-> item.fullSizeImage,
   selected_size |-> item.selectedSize,
   quantity |-> item.quantity,
   unit_price |-> item.unitPrice,
   discount |-> item.discount,
   final_price |-> item.finalPrice]

\* Row of sales stored for a request.
SaleHeader(body) ==
  [total_amount |-> body.totalAmount.v, payment_method |-> body.paymentMethod]

\* sizeRow.length > 0 && sizeRow[0].stock >= item.quantity
Sufficient(sizeRow, quantity) == sizeRow # << >> /\ sizeRow[1] >= quantity

\* sizeRow.length > 0 && sizeRow[0].stock < item.quantity
Insufficient(sizeRow, quantity) == sizeRow # << >> /\ sizeRow[1] < quantity

\* Decrement that ignores the quantity sold.
DecrementedByOne(stock, quantity) == stock - 1

\* UPDATE product_sizes SET stock = stock - ?
Decremented(stock, quantity) == stock - quantity

\* Response body with the two counts exchanged.
NotEnoughStockSwapped(item, sizeRow) ==
  [title |-> item.title, size |-> item.selectedSize,
   available |-> item.quantity, requested |-> sizeRow[1]]

\* Body of the 400 response of an item short of stock: `Not enough stock
\* for ${item.title} (Size: ${item.selectedSize}). Available:
\* ${sizeRow[0].stock}, Requested: ${item.quantity}.`
NotEnoughStock(item, sizeRow) ==
  [title |-> item.title, size |-> item.selectedSize,
   available |-> sizeRow[1], requested |-> item.quantity]

\* Position after the line item at idx[r] has been inserted.
AfterItem(r) == IF idx[r] = Len(req[r].items) THEN "commit" ELSE "item"

\* INSERT INTO sale_items (...) at the end of a loop iteration.
InsertItem(r, row) ==
  /\ witems' = [witems EXCEPT ![r] = Append(@, row)]
  /\ idx' = [idx EXCEPT ![r] = @ + 1]
  /\ pc' = [pc EXCEPT ![r] = AfterItem(r)]

\* The request arrives: validation, beginTransaction, INSERT INTO sales.
BeginSale(r, body) ==
  /\ CanBegin(r)
  /\ body.kind = "sale"
  /\ Begun(r, body)
  /\ IF MissingSaleFields(body)
     THEN /\ End(r, body, "none", [status |-> 400, error |-> "missing", info |-> NoInfo])
          /\ idx' = [idx EXCEPT ![r] = 0]
          /\ saleId' = [saleId EXCEPT ![r] = 0]
          /\ UNCHANGED <<store, nextId>>
     ELSE /\ pc' = [pc EXCEPT ![r] = "item"]
          /\ txn' = [txn EXCEPT ![r] = "open"]
          /\ resp' = [resp EXCEPT ![r] = NoResp]
          /\ saleId' = [saleId EXCEPT ![r] = nextId]
          /\ nextId' = nextId + 1
          /\ idx' = [idx EXCEPT ![r] = 1]
          /\ UNCHANGED <<store, seen, snap, wset, wdel, locks, witems, wcat, wsdel, hist>>

\* One iteration of the loop up to its SELECT stock: a manual item is
\* inserted; a catalog item is resolved (SELECT product_id), and if it
\* carries a size the stock of that size is read.
SaleItem(r) ==
  /\ pc[r] = "item"
  /\ LET item == req[r].items[idx[r]]
         k == <<item.productId, item.selectedSize>>
     IN IF item.isManual
        THEN /\ InsertItem(r, ManualRow(item))
             /\ UNCHANGED <<store, nextId, req, seen, snap, wset, wdel, locks,
                            wcat, wsdel, saleId, txn, resp, pre, hist, calls>>
        ELSE IF item.productId \notin products
        THEN Rollback(r, 400, "notfound",
                      [NoInfo EXCEPT !.title = item.productId])
        ELSE /\ snap' = [snap EXCEPT ![r] = <<ReadView(r)>>]
             /\ IF item.selectedSize # NoSize
                THEN /\ seen' = [seen EXCEPT ![r] = SelectStock(r, k)]
                     /\ pc' = [pc EXCEPT ![r] = "stock"]
                     /\ UNCHANGED <<witems, idx>>
                ELSE /\ InsertItem(r, CatalogRow(item))
                     /\ UNCHANGED seen
             /\ UNCHANGED <<store, nextId, req, wset, wdel, locks, wcat, wsdel,
                            saleId, txn, resp, pre, hist, calls>>

\* The rest of the iteration of a catalog item with a size: decrement
\* under the row lock, or abort the sale, or (no stock row) go on.
SaleStock(r) ==
  /\ pc[r] = "stock"
  /\ LET item == req[r].items[idx[r]]
         k == <<item.productId, item.selectedSize>>
     IN IF Sufficient(seen[r], item.quantity)
        THEN /\ LockFree(r, {k})
             /\ locks' = [locks EXCEPT ![r] = @ \cup {k}]
             /\ wset' = [wset EXCEPT ![r] =
                           IF HasLatest(r, k)
                           THEN WriteRow(@, k, Decremented(LatestStock(r, k), item.quantity))
                           ELSE @]
             /\ seen' = [seen EXCEPT ![r] = << >>]
             /\ InsertItem(r, CatalogRow(item))
             /\ UNCHANGED <<store, nextId, req, snap, wdel, wcat, wsdel, saleId,
                            txn, resp, pre, hist, calls>>
        ELSE IF Insufficient(seen[r], item.quantity)
        THEN Rollback(r, 400, "insufficient", NotEnoughStock(item, seen[r]))
        ELSE /\ seen' = [seen EXCEPT ![r] = << >>]
             /\ InsertItem(r, CatalogRow(item))
             /\ UNCHANGED <<store, nextId, req, snap, wset, wdel, locks, wcat,
                            wsdel, saleId, txn, resp, pre, hist, calls>>

\* ------------------------------------------------- PUT /api/products/:uuid/stock
\* req.user.role === 'employee' && action !== 'sell'
\*   && !req.user.permissions?.accessInventory
Forbidden(body) ==
  body.role = "employee" /\ body.action # "sell" /\ ~body.accessInventory

\* The branch of the if / else-if chain a body takes.
Mode(body) ==
  IF body.hasArray THEN "replaceAll"
  ELSE IF body.sizeName # Undefined /\ IsDefined(body.newStock) /\ body.action = "sell"
  THEN "sell"
  ELSE IF body.sizeName # Undefined /\ IsDefined(body.newStock)
  THEN "setAbsolute"
  ELSE "invalid"

\* Math.abs(Number(newStock)) of a numeric newStock
QuantitySold(body) == Abs(body.newStock.v)

\* Stock value taken without the clamp.
StockValueUnclamped(body) == body.newStock.v

\* Math.max(0, Number(newStock)) of a numeric newStock
StockValue(body) == Max(0, body.newStock.v)

\* Math.max(0, Number(s.stock) || 0)
EntryStock(s) == IF IsNaN(s.stock) THEN 0 ELSE Max(0, s.stock.v)

\* INSERT INTO product_sizes ... VALUES ? fails on two rows of one size
\* (uq_product_size).
DuplicateSizes(list) ==
  \E i, j \in DOMAIN list : i # j /\ list[i].size = list[j].size

\* Rows of an INSERT that adds the given stock to the stock a size had.
ReplacedRowsAdding(p, list) ==
  [k \in {<<p, list[i].size>> : i \in DOMAIN list} |->
     EntryStock(list[CHOOSE i \in DOMAIN list : list[i].size = k[2]])
       + (IF k \in DOMAIN product_sizes THEN product_sizes[k] ELSE 0)]

\* Rows the INSERT of a replaceAll creates for product p.
ReplacedRows(p, list) ==
  [k \in {<<p, list[i].size>> : i \in DOMAIN list} |->
     EntryStock(list[CHOOSE i \in DOMAIN list : list[i].size = k[2]])]

\* A replaceAll whose DELETE removes nothing.
DeletedNone(p) == {}

\* DELETE FROM product_sizes WHERE product_id = ?
DeletedKeys(p) == KeysOf(p)

\* New stock of the sell mode: clamp to zero, or decrement.
SellStock(currentStock, latest, quantitySold) ==
  IF currentStock < quantitySold THEN 0 ELSE latest - quantitySold

\* The request arrives: permission check, beginTransaction, SELECT
\* product_id, and the checks and reads of the chosen mode that come
\* before its locking statement.
BeginAdjust(r, body) ==
  /\ CanBegin(r)
  /\ body.kind = "adjust"
  /\ Begun(r, body)
  /\ idx' = [idx EXCEPT ![r] = 0]
  /\ saleId' = [saleId EXCEPT ![r] = 0]
  /\ UNCHANGED <<store, nextId>>
  /\ LET k == <<body.productId, body.sizeName>>
         fail(t, code, error) ==
           End(r, body, t, [status |-> code, error |-> error, info |-> NoInfo])
         go(row) ==
           /\ pc' = [pc EXCEPT ![r] = "write"]
           /\ txn' = [txn EXCEPT ![r] = "open"]
           /\ resp' = [resp EXCEPT ![r] = NoResp]
           /\ snap' = [snap EXCEPT ![r] = <<product_sizes>>]
           /\ seen' = [seen EXCEPT ![r] = row]
           /\ UNCHANGED <<wset, wdel, locks, witems, wcat, wsdel, hist>>
     IN IF Forbidden(body) THEN fail("none", 403, "forbidden")
        ELSE IF body.productId \notin products THEN fail("rolledback", 404, "notfound")
        ELSE IF Mode(body) = "replaceAll" THEN go(<< >>)
        ELSE IF Mode(body) = "sell"
        THEN IF IsNaN(body.newStock) \/ QuantitySold(body) <= 0
             THEN fail("rolledback", 400, "quantity")
             ELSE IF SelectStock(r, k) = << >>
             THEN fail("rolledback", 400, "nosize")
             ELSE go(SelectStock(r, k))
        ELSE IF Mode(body) = "setAbsolute"
        THEN IF IsNaN(body.newStock)
             THEN fail("rolledback", 400, "stockvalue")
             ELSE go(<< >>)
        ELSE fail("rolledback", 400, "payload")

\* The locking statement of the mode: DELETE (replaceAll, whose INSERT
\* follows when the list is not empty), UPDATE (sell), INSERT ... ON
\* DUPLICATE KEY UPDATE (setAbsolute).
AdjustWrite(r) ==
  /\ pc[r] = "write"
  /\ LET body == req[r]
         p == body.productId
         k == <<p, body.sizeName>>
         m == Mode(body)
         K == IF m = "replaceAll" THEN KeysOf(p) ELSE {k}
     IN /\ LockFree(r, K)
        /\ locks' = [locks EXCEPT ![r] = @ \cup K]
        /\ IF m = "replaceAll"
           THEN /\ wdel' = [wdel EXCEPT ![r] = @ \cup DeletedKeys(p)]
                /\ wset' = wset
                /\ pc' = [pc EXCEPT ![r] =
                            IF Len(body.updatedSizesArray) > 0 THEN "insert"
                            ELSE "commit"]
           ELSE /\ wdel' = wdel
                /\ wset' = [wset EXCEPT ![r] =
                     IF m = "setAbsolute" THEN WriteRow(@, k, StockValue(body))
                     ELSE IF HasLatest(r, k)
                     THEN WriteRow(@, k, SellStock(seen[r][1], LatestStock(r, k),
                                                   QuantitySold(body)))
                     ELSE @]
                /\ pc' = [pc EXCEPT ![r] = "commit"]
        /\ UNCHANGED <<store, nextId, req, idx, seen, snap, witems, wcat, wsdel,
                       saleId, txn, resp, pre, hist, calls>>

\* INSERT INTO product_sizes ... VALUES ? of a replaceAll, after its
\* DELETE: a list that names a size twice violates uq_product_size, the
\* statement throws and the catch block rolls back.
AdjustInsert(r) ==
  /\ pc[r] = "insert"
  /\ IF DuplicateSizes(req[r].updatedSizesArray)
     THEN Rollback(r, 500, "store", NoInfo)
     ELSE /\ wset' = [wset EXCEPT ![r] =
                        ReplacedRows(req[r].productId, req[r].updatedSizesArray)]
          /\ pc' = [pc EXCEPT ![r] = "commit"]
          /\ UNCHANGED <<store, nextId, req, idx, seen, snap, wdel, locks, witems,
                         wcat, wsdel, saleId, txn, resp, pre, hist, calls>>

\* ------------------------------------------------- PUT /api/sales/:uuid
\* if (!items || !Array.isArray(items) || totalAmount == null || !paymentMethod)
InvalidUpdate(body) ==
  \/ ~body.itemsIsArray
  \/ ~IsDefined(body.totalAmount)
  \/ body.paymentMethod \in {Undefined, ""}

\* Row of sale_items an update stores for an item: the INSERT names no
\* full_size_image, which is left NULL.
UpdateRow(item) ==
  [product_id |-> item.productId,
   product_uuid |-> item.productId,
   title |-> item.title,
   code |-> item.code,
   image |-> item.image,
   full_size_image |-> NULL,
   selected_size |-> item.selectedSize,
   quantity |-> item.quantity,
   unit_price |-> item.unitPrice,
   discount |-> item.discount,
   final_price |-> item.finalPrice]

\* Position of an update after the statements before the loop, or after
\* the item at index i.
AfterUpdateItem(body, i) == IF i >= Len(body.items) THEN "commit" ELSE "uitem"

\* The request arrives: admin check, validation, beginTransaction, SELECT
\* sale_id, UPDATE sales, DELETE FROM sale_items.
BeginUpdate(r, body) ==
  /\ CanBegin(r)
  /\ body.kind = "update"
  /\ Begun(r, body)
  /\ UNCHANGED <<store, nextId>>
  /\ LET fail(t, code, error) ==
           /\ End(r, body, t, [status |-> code, error |-> error, info |-> NoInfo])
           /\ idx' = [idx EXCEPT ![r] = 0]
           /\ saleId' = [saleId EXCEPT ![r] = 0]
     IN IF body.role # "admin" THEN fail("none", 403, "forbidden")
        ELSE IF InvalidUpdate(body) THEN fail("none", 400, "missing")
        ELSE IF body.saleUuid \notin DOMAIN sales THEN fail("rolledback", 404, "notfound")
        ELSE /\ pc' = [pc EXCEPT ![r] = AfterUpdateItem(body, 0)]
             /\ txn' = [txn EXCEPT ![r] = "open"]
             /\ resp' = [resp EXCEPT ![r] = NoResp]
             /\ saleId' = [saleId EXCEPT ![r] = body.saleUuid]
             /\ idx' = [idx EXCEPT ![r] = 1]
             /\ witems' = [witems EXCEPT ![r] = << >>]
             /\ UNCHANGED <<seen, snap, wset, wdel, locks, wcat, wsdel, hist>>

\* One iteration of the loop: SELECT product_id for the item's productId,
\* whatever the item is, then INSERT INTO sale_items.
UpdateItem(r) ==
  /\ pc[r] = "uitem"
  /\ LET item == req[r].items[idx[r]]
     IN IF item.productId \notin products
        THEN Rollback(r, 400, "notfound", [NoInfo EXCEPT !.title = item.productId])
        ELSE /\ witems' = [witems EXCEPT ![r] = Append(@, UpdateRow(item))]
             /\ idx' = [idx EXCEPT ![r] = @ + 1]
             /\ pc' = [pc EXCEPT ![r] = AfterUpdateItem(req[r], idx[r])]
             /\ UNCHANGED <<store, nextId, req, seen, snap, wset, wdel, locks, wcat,
                            wsdel, saleId, txn, resp, pre, hist, calls>>

\* ------------------------------------------------- DELETE /api/sales/bulk-delete
\* if (!saleIds || !Array.isArray(saleIds) || saleIds.length === 0)
NoSaleIds(body) == ~body.saleIdsIsArray \/ Len(body.saleIds) = 0

\* The sales the loop finds: SELECT sale_id FROM sales WHERE uuid = ? for
\* each uuid of the list; a uuid without a sale is skipped.
FoundSales(body) ==
  {body.saleIds[i] : i \in DOMAIN body.saleIds} \cap DOMAIN sales

\* The request arrives: admin check, validation, beginTransaction.
BeginDelete(r, body) ==
  /\ CanBegin(r)
  /\ body.kind = "delete"
  /\ Begun(r, body)
  /\ idx' = [idx EXCEPT ![r] = 0]
  /\ saleId' = [saleId EXCEPT ![r] = 0]
  /\ UNCHANGED <<store, nextId>>
  /\ IF body.role # "admin"
     THEN End(r, body, "none", [status |-> 403, error |-> "forbidden", info |-> NoInfo])
     ELSE IF NoSaleIds(body)
     THEN End(r, body, "none", [status |-> 400, error |-> "missing", info |-> NoInfo])
     ELSE /\ pc' = [pc EXCEPT ![r] = "sdel"]
          /\ txn' = [txn EXCEPT ![r] = "open"]
          /\ resp' = [resp EXCEPT ![r] = NoResp]
          /\ UNCHANGED <<seen, snap, wset, wdel, locks, witems, wcat, wsdel, hist>>

\* The loop: DELETE FROM sale_items and DELETE FROM sales of each sale
\* found.
DeleteLoop(r) ==
  /\ pc[r] = "sdel"
  /\ wsdel' = [wsdel EXCEPT ![r] = FoundSales(req[r])]
  /\ pc' = [pc EXCEPT ![r] = "sdelcommit"]
  /\ UNCHANGED <<store, nextId, req, idx, seen, snap, wset, wdel, locks, witems,
                 wcat, saleId, txn, resp, pre, hist, calls>>

\* Commit of a deletion that adds a unit to each stock count per sale
\* deleted.
CommitDeleteRestocking(r) ==
  /\ pc[r] = "sdelcommit"
  /\ sales' = [i \in DOMAIN sales \ wsdel[r] |-> sales[i]]
  /\ sale_items' = [i \in DOMAIN sale_items \ wsdel[r] |-> sale_items[i]]
  /\ product_sizes' = [k \in DOMAIN product_sizes |->
                         product_sizes[k] + Cardinality(wsdel[r])]
  /\ End(r, req[r], "committed", [status |-> 200, error |-> "", info |-> NoInfo])
  /\ UNCHANGED <<products, catalog, nextId, req, idx, saleId, pre, calls>>

\* await connection.commit(); res.status(200): the rows deleted are gone
\* from sales and sale_items, and nothing else is written.
CommitDelete(r) ==
  /\ pc[r] = "sdelcommit"
  /\ sales' = [i \in DOMAIN sales \ wsdel[r] |-> sales[i]]
  /\ sale_items' = [i \in DOMAIN sale_items \ wsdel[r] |-> sale_items[i]]
  /\ End(r, req[r], "committed", [status |-> 200, error |-> "", info |-> NoInfo])
  /\ UNCHANGED <<products, catalog, product_sizes, nextId, req, idx, saleId, pre,
                 calls>>

\* ------------------------------------------------- DELETE /api/products
\* DELETE /api/products/:uuid names one product, DELETE
\* /api/products/bulk-delete a list of them.
\* !Array.isArray(productIds) || productIds.length === 0
NoProductIds(body) == body.bulk /\ Len(body.productIds) = 0

\* SELECT product_id FROM products WHERE uuid = ? / uuid IN (...)
FoundProducts(body) ==
  {body.productIds[i] : i \in DOMAIN body.productIds} \cap products

\* The request arrives: admin check, validation of the list,
\* beginTransaction, SELECT product_id.
BeginRemove(r, body) ==
  /\ CanBegin(r)
  /\ body.kind = "remove"
  /\ Begun(r, body)
  /\ idx' = [idx EXCEPT ![r] = 0]
  /\ saleId' = [saleId EXCEPT ![r] = 0]
  /\ UNCHANGED <<store, nextId>>
  /\ IF body.role # "admin"
     THEN End(r, body, "none", [status |-> 403, error |-> "forbidden", info |-> NoInfo])
     ELSE IF NoProductIds(body)
     THEN End(r, body, "none", [status |-> 400, error |-> "missing", info |-> NoInfo])
     ELSE IF FoundProducts(body) = {}
     THEN End(r, body, "rolledback",
              [status |-> 404, error |-> "notfound", info |-> NoInfo])
     ELSE /\ pc' = [pc EXCEPT ![r] = "premove"]
          /\ txn' = [txn EXCEPT ![r] = "open"]
          /\ resp' = [resp EXCEPT ![r] = NoResp]
          /\ UNCHANGED <<seen, snap, wset, wdel, locks, witems, wcat, wsdel, hist>>

\* DELETE FROM products WHERE product_id = ? / IN (...), after the DELETE
\* FROM product_sizes of the bulk handler: the size rows of the products go
\* with them, by that statement or by ON DELETE CASCADE.
RemoveWrite(r) ==
  /\ pc[r] = "premove"
  /\ LET K == {k \in DOMAIN product_sizes : k[1] \in FoundProducts(req[r])}
     IN /\ LockFree(r, K)
        /\ locks' = [locks EXCEPT ![r] = @ \cup K]
        /\ wdel' = [wdel EXCEPT ![r] = @ \cup K]
  /\ pc' = [pc EXCEPT ![r] = "rcommit"]
  /\ UNCHANGED <<store, nextId, req, idx, seen, snap, wset, witems, wcat, wsdel,
                 saleId, txn, resp, pre, hist, calls>>

\* A line item after the products of the set gone were deleted: FOREIGN KEY
\* (product_id) ... ON DELETE SET NULL; product_uuid is no foreign key and
\* stays.
Unlinked(row, gone) ==
  IF row.product_id \in gone THEN [row EXCEPT !.product_id = NULL] ELSE row

\* await connection.commit(); res.json({success: true}): the products
\* found and their size rows are gone, the line items sold of them stay.
CommitRemove(r) ==
  /\ pc[r] = "rcommit"
  /\ LET gone == FoundProducts(req[r])
     IN /\ products' = products \ gone
        /\ catalog' = [p \in DOMAIN catalog \ gone |-> catalog[p]]
        /\ sale_items' = [i \in DOMAIN sale_items |->
                            [j \in DOMAIN sale_items[i] |->
                               Unlinked(sale_items[i][j], gone)]]
  /\ product_sizes' = Installed(r)
  /\ End(r, req[r], "committed", [status |-> 200, error |-> "", info |-> NoInfo])
  /\ UNCHANGED <<sales, nextId, req, idx, saleId, pre, calls>>

\* ------------------------------------------------- PUT /api/products/:uuid
\* String.prototype.trim on the strings the requests carry.
Trim(str) == IF str = " retitled " THEN "retitled" ELSE str

\* !parsedSizes.every(s => typeof s.size === 'string'
\*                         && typeof s.stock === 'number' && s.stock >= 0)
InvalidSizes(list) ==
  \E i \in DOMAIN list : IsNaN(list[i].stock) \/ list[i].stock.v < 0

\* SELECT product_id FROM products WHERE code = ? AND uuid != ?
ExistingCode(code, p) ==
  {q \in products \ {p} : catalog[q].code = Trim(code)}

\* The products row after UPDATE products SET <updateFields>: a field of
\* the body that is defined replaces the column, the others stay.
UpdateFields(row, body) ==
  [title |-> IF body.title # Undefined THEN Trim(body.title) ELSE row.title,
   code |-> IF body.code # Undefined THEN Trim(body.code) ELSE row.code,
   price |-> IF IsDefined(body.price) THEN body.price.v ELSE row.price,
   image |-> IF body.image # Undefined THEN Trim(body.image) ELSE row.image]

\* parsedSizes.map(s => [productId, s.size, s.stock])
SizeValues(p, list) ==
  [k \in {<<p, list[i].size>> : i \in DOMAIN list} |->
     list[CHOOSE i \in DOMAIN list : list[i].size = k[2]].stock.v]

\* The request arrives: isAdmin, the check of sizes, beginTransaction,
\* SELECT product_id, the check that the code is not another product's.
BeginEdit(r, body) ==
  /\ CanBegin(r)
  /\ body.kind = "edit"
  /\ Begun(r, body)
  /\ idx' = [idx EXCEPT ![r] = 0]
  /\ saleId' = [saleId EXCEPT ![r] = 0]
  /\ UNCHANGED <<store, nextId>>
  /\ LET fail(t, code, error) ==
           End(r, body, t, [status |-> code, error |-> error, info |-> NoInfo])
     IN IF body.role # "admin" THEN fail("none", 403, "forbidden")
        ELSE IF body.hasSizes /\ InvalidSizes(body.sizes) THEN fail("none", 400, "sizes")
        ELSE IF body.productId \notin products THEN fail("rolledback", 404, "notfound")
        ELSE IF body.code \notin {Undefined, ""} /\ ExistingCode(body.code, body.productId) # {}
        THEN fail("rolledback", 400, "code")
        ELSE /\ pc' = [pc EXCEPT ![r] = "pwrite"]
             /\ txn' = [txn EXCEPT ![r] = "open"]
             /\ resp' = [resp EXCEPT ![r] = NoResp]
             /\ snap' = [snap EXCEPT ![r] = <<product_sizes>>]
             /\ UNCHANGED <<seen, wset, wdel, locks, witems, wcat, wsdel, hist>>

\* UPDATE products, and when the body carries sizes DELETE FROM
\* product_sizes + INSERT of the list (a size named twice violates
\* uq_product_size: the statement throws).
EditWrite(r) ==
  /\ pc[r] = "pwrite"
  /\ LET body == req[r]
         p == body.productId
     IN IF body.hasSizes
        THEN /\ LockFree(r, KeysOf(p))
             /\ IF DuplicateSizes(body.sizes)
                THEN Rollback(r, 500, "store", NoInfo)
                ELSE /\ locks' = [locks EXCEPT ![r] = @ \cup KeysOf(p)]
                     /\ wdel' = [wdel EXCEPT ![r] = @ \cup KeysOf(p)]
                     /\ wset' = [wset EXCEPT ![r] = SizeValues(p, body.sizes)]
                     /\ wcat' = [wcat EXCEPT ![r] =
                                   WriteRow(@, p, UpdateFields(catalog[p], body))]
                     /\ pc' = [pc EXCEPT ![r] = "commit"]
                     /\ UNCHANGED <<store, nextId, req, idx, seen, snap, witems,
                                    wsdel, saleId, txn, resp, pre, hist, calls>>
        ELSE /\ wcat' = [wcat EXCEPT ![r] =
                           WriteRow(@, p, UpdateFields(catalog[p], body))]
             /\ pc' = [pc EXCEPT ![r] = "commit"]
             /\ UNCHANGED <<store, nextId, req, idx, seen, snap, wset, wdel, locks,
                            witems, wsdel, saleId, txn, resp, pre, hist, calls>>

\* ------------------------------------------------- commit, read-back, errors
\* products after the commit of r.
CatalogInstalled(r) ==
  [p \in DOMAIN catalog |->
     IF p \in DOMAIN wcat[r] THEN wcat[r][p] ELSE catalog[p]]

\* sales after the commit of r: the header a commitSale inserted or an
\* updateSale rewrote; no other handler that commits here writes to sales.
SalesInstalled(r) ==
  IF req[r].kind \in {"sale", "update"}
  THEN [i \in DOMAIN sales \cup {saleId[r]} |->
          IF i = saleId[r] THEN SaleHeader(req[r]) ELSE sales[i]]
  ELSE sales

\* Commit of a product edit that carries the new title and code into the
\* line items sold of the product.
ItemsInstalledRetitled(r) ==
  IF req[r].kind \in {"sale", "update"}
  THEN [i \in DOMAIN sale_items \cup {saleId[r]} |->
          IF i = saleId[r] THEN witems[r] ELSE sale_items[i]]
  ELSE [i \in DOMAIN sale_items |->
          [j \in DOMAIN sale_items[i] |->
             IF sale_items[i][j].product_uuid \in DOMAIN wcat[r]
             THEN [sale_items[i][j] EXCEPT
                     !.title = wcat[r][sale_items[i][j].product_uuid].title,
                     !.code = wcat[r][sale_items[i][j].product_uuid].code]
             ELSE sale_items[i][j]]]

\* sale_items after the commit of r: the rows the transaction inserted
\* for its sale, in place of the rows an updateSale deleted.
ItemsInstalled(r) ==
  IF req[r].kind \in {"sale", "update"}
  THEN [i \in DOMAIN sale_items \cup {saleId[r]} |->
          IF i = saleId[r] THEN witems[r] ELSE sale_items[i]]
  ELSE sale_items

\* await connection.commit(): the write set becomes the committed rows,
\* the locks are released.
Commit(r) ==
  /\ pc[r] = "commit"
  /\ product_sizes' = Installed(r)
  /\ catalog' = CatalogInstalled(r)
  /\ sales' = SalesInstalled(r)
  /\ sale_items' = ItemsInstalled(r)
  /\ pc' = [pc EXCEPT ![r] = "readback"]
  /\ txn' = [txn EXCEPT ![r] = "committed"]
  /\ snap' = [snap EXCEPT ![r] = << >>]
  /\ wset' = [wset EXCEPT ![r] = EmptyTable]
  /\ wdel' = [wdel EXCEPT ![r] = {}]
  /\ locks' = [locks EXCEPT ![r] = {}]
  /\ witems' = [witems EXCEPT ![r] = << >>]
  /\ wcat' = [wcat EXCEPT ![r] = EmptyTable]
  /\ wsdel' = [wsdel EXCEPT ![r] = {}]
  /\ UNCHANGED <<products, nextId, req, idx, seen, saleId, resp, pre, hist, calls>>

\* The SELECTs after the commit and the success response.
Readback(r) ==
  /\ pc[r] = "readback"
  /\ End(r, req[r], "committed",
         [status |-> IF req[r].kind = "sale" THEN 201 ELSE 200,
          error |-> "", info |-> NoInfo])
  /\ UNCHANGED <<store, nextId, req, idx, saleId, pre, calls>>

\* A catch block that answers 500 without connection.rollback(): the
\* transaction of a failed statement stays as it was.
StoreErrorNoRollback(r) ==
  /\ pc[r] \in {"item", "stock", "write", "insert", "pwrite", "uitem", "sdel", "sdelcommit",
               "premove", "rcommit",
               "commit", "readback"}
  /\ End(r, req[r], txn[r], [status |-> 500, error |-> "store", info |-> NoInfo])
  /\ UNCHANGED <<store, nextId, req, idx, saleId, pre, calls>>

\* A statement of the handler throws (lost connection, lock wait timeout,
\* deadlock victim, ...): catch { rollback; res.status(500) }.  After the
\* commit the rollback has nothing to undo.
StoreError(r) ==
  /\ pc[r] \in {"item", "stock", "write", "insert", "pwrite", "uitem", "sdel", "sdelcommit",
               "premove", "rcommit",
               "commit", "readback"}
  /\ End(r, req[r], IF txn[r] = "committed" THEN "committed" ELSE "rolledback",
         [status |-> 500, error |-> "store", info |-> NoInfo])
  /\ UNCHANGED <<store, nextId, req, idx, saleId, pre, calls>>

\* ------------------------------------------------- requests
\* Line items as the point-of-sale client builds them: a catalog item
\* carries the client's copy of the product and the final price computed
\* from it; a manual item carries its price as unitPrice.
CatalogItem(p, s, q) ==
  [isManual |-> FALSE, productId |-> p, title |-> TitleOf(p), code |-> CodeOf(p),
   image |-> ImageOf(p), fullSizeImage |-> "", selectedSize |-> s,
   quantity |-> q, unitPrice |-> PriceOf(p), discount |-> 0,
   finalPrice |-> PriceOf(p) * q - 0, manualPrice |-> Absent]
ManualItem(q) ==
  [isManual |-> TRUE, productId |-> NULL, title |-> "Manual Item", code |-> "N/A",
   image |-> "", fullSizeImage |-> "", selectedSize |-> NoSize,
   quantity |-> q, unitPrice |-> 0, discount |-> 0,
   finalPrice |-> 0 * q - 0, manualPrice |-> Absent]
SaleBody(items) ==
  [kind |-> "sale", items |-> items, itemsIsArray |-> TRUE,
   totalAmount |-> Num(0), paymentMethod |-> "Cash"]

AdjustBody(p, size, newStock, action) ==
  [kind |-> "adjust", productId |-> p, role |-> "admin", accessInventory |-> TRUE,
   sizeName |-> size, newStock |-> newStock, hasArray |-> FALSE,
   updatedSizesArray |-> << >>, action |-> action]
ReplaceBody(p, list) ==
  [AdjustBody(p, Undefined, Absent, Undefined) EXCEPT
     !.hasArray = TRUE, !.updatedSizesArray = list]
Entry(size, n) == [size |-> size, stock |-> Num(n)]
\* Sum of the final prices of the line items of a request.
RECURSIVE SumFinalPrice(_, _)
SumFinalPrice(items, n) ==
  IF n = 0 THEN 0 ELSE SumFinalPrice(items, n - 1) + items[n].finalPrice

UpdateBody(id, items) ==
  [kind |-> "update", role |-> "admin", saleUuid |-> id, items |-> items,
   itemsIsArray |-> TRUE, totalAmount |-> Num(SumFinalPrice(items, Len(items))),
   paymentMethod |-> "Card"]
DeleteBody(ids) ==
  [kind |-> "delete", role |-> "admin", saleIds |-> ids, saleIdsIsArray |-> TRUE]
EditBody(p) ==
  [kind |-> "edit", productId |-> p, role |-> "admin", title |-> Undefined,
   code |-> Undefined, price |-> Absent, image |-> Undefined,
   hasSizes |-> FALSE, sizes |-> << >>]

\* Line items: sizes with a stock row (p1/S, p2/S, and p1/M in some initial
\* stores), a size without one (p2/M), no size, an unknown product, manual.
ItemA == CatalogItem("p1", "S", 1)
ItemB == CatalogItem("p1", "S", MaxQty)
ItemC == CatalogItem("p1", "M", 1)
ItemD == CatalogItem("p2", "S", 1)
ItemG == CatalogItem(Ghost, "S", 1)
ItemN == CatalogItem("p2", "M", 1)
ItemZ == CatalogItem("p1", NoSize, 1)

\* Requests of the sequential runs.
SeqSales ==
  {SaleBody(<<i>>) : i \in {ItemA, ItemB, ItemC, ItemD, ItemG, ItemN, ItemZ, ManualItem(1)}}
  \cup {SaleBody(<<i, j>>) : i \in {ItemA, ItemB, ItemC}, j \in {ItemA, ItemB, ItemG}}
  \cup {SaleBody(<<ItemD, ItemB>>), SaleBody(<< >>)}

SeqAdjusts ==
  {AdjustBody("p1", s, Num(n), Undefined) : s \in Sizes, n \in {-1, 0, MaxStock}}
  \cup {AdjustBody("p1", "S", Num(0 - q), "sell") : q \in {0, 1, MaxStock + 1}}
  \cup {ReplaceBody("p1", l) :
          l \in {<< >>, <<Entry("S", -1)>>, <<Entry("S", MaxStock)>>, <<Entry("M", 1)>>,
                 <<Entry("S", 1), Entry("M", -1)>>, <<Entry("M", MaxStock), Entry("S", 0)>>,
                 <<Entry("S", 1), Entry("S", 2)>>,
                 <<[size |-> "S", stock |-> NotANumber]>>}}
  \cup {AdjustBody(Ghost, "S", Num(1), Undefined),
        AdjustBody("p1", "S", NotANumber, Undefined),
        AdjustBody("p1", "S", NotANumber, "sell"),
        AdjustBody("p1", "M", Num(-1), "sell"),
        AdjustBody("p1", Undefined, Absent, Undefined),
        [AdjustBody("p1", "S", Num(1), Undefined) EXCEPT
           !.role = "employee", !.accessInventory = FALSE]}

\* Requests of the concurrent runs.
ConcSales ==
  {SaleBody(<<i>>) : i \in {ItemA, ItemB, ItemC}}
  \cup {SaleBody(<<ItemA, ItemC>>), SaleBody(<<ItemC, ItemA>>), SaleBody(<< >>)}

ConcAdjusts ==
  {AdjustBody("p1", "S", Num(-1), "sell"),
   AdjustBody("p1", "S", Num(0 - MaxQty), "sell"),
   AdjustBody("p1", "S", Num(MaxStock), Undefined),
   ReplaceBody("p1", <<Entry("S", 1)>>)}

\* ------------------------------------------------- specifications
\* Requests overlap: both handler slots run, each serving one request.
OverlappingSale(r, body) == pc[r] = "idle" /\ BeginSale(r, body)
OverlappingAdjust(r, body) == pc[r] = "idle" /\ BeginAdjust(r, body)

Next ==
  \/ \E r \in Reqs, body \in ConcSales : OverlappingSale(r, body)
  \/ \E r \in Reqs, body \in ConcAdjusts : OverlappingAdjust(r, body)
  \/ \E r \in Reqs : SaleItem(r)
  \/ \E r \in Reqs : SaleStock(r)
  \/ \E r \in Reqs : AdjustWrite(r)
  \/ \E r \in Reqs : AdjustInsert(r)
  \/ \E r \in Reqs : Commit(r)
  \/ \E r \in Reqs : Readback(r)
  \/ \E r \in Reqs : StoreError(r)

Spec == Init /\ [][Next]_vars

\* The next step of the handler serving r.  Every awaited statement
\* settles: it completes, or it throws (a lock wait ends with the
\* holder's commit or rollback, or with the lock wait timeout).
Step(r) ==
  \/ SaleItem(r)
  \/ SaleStock(r)
  \/ AdjustWrite(r)
  \/ AdjustInsert(r)
  \/ Commit(r)
  \/ Readback(r)
  \/ StoreError(r)

\* Overlapping sales and adjustments whose handlers keep running: a
\* handler that has a step to take eventually takes one.
SpecLive == Init /\ [][Next]_vars /\ \A r \in Reqs : WF_vars(Step(r))

\* Sales run one after another: one handler slot serves up to MaxCalls
\* commitSale requests.
NextSales ==
  \/ \E body \in SeqSales : BeginSale("r1", body)
  \/ SaleItem("r1")
  \/ SaleStock("r1")
  \/ Commit("r1")
  \/ Readback("r1")
  \/ StoreError("r1")

SpecSales == Init /\ [][NextSales]_vars

\* Stock adjustments run one after another: one handler slot serves up to
\* MaxCalls adjustStock requests.
NextStock ==
  \/ \E body \in SeqAdjusts : BeginAdjust("r1", body)
  \/ AdjustWrite("r1")
  \/ AdjustInsert("r1")
  \/ Commit("r1")
  \/ Readback("r1")
  \/ StoreError("r1")

SpecStock == Init /\ [][NextStock]_vars

\* The stock requests an employee without the accessInventory permission
\* can send: every combination of sizeName, newStock, updatedSizesArray and
\* action.
EmployeeAdjusts ==
  {[kind |-> "adjust", productId |-> "p1", role |-> "employee",
    accessInventory |-> FALSE, sizeName |-> s, newStock |-> n,
    hasArray |-> l # << >>, updatedSizesArray |-> IF l = << >> THEN << >> ELSE l[1],
    action |-> a] :
     s \in {Undefined, "S"}, n \in {Absent, Num(1)},
     l \in {<< >>, << << >> >>, << <<Entry("S", MaxStock)>> >>},
     a \in {Undefined, "sell", "set"}}

\* Stock requests of such an employee, one after another.
NextEmployee ==
  \/ \E body \in EmployeeAdjusts : BeginAdjust("r1", body)
  \/ AdjustWrite("r1")
  \/ AdjustInsert("r1")
  \/ Commit("r1")
  \/ Readback("r1")
  \/ StoreError("r1")

SpecEmployee == Init /\ [][NextEmployee]_vars

\* Sales of one, two and three catalog items of product p1 in size S whose
\* quantities are any numbers a request can carry: negative, zero,
\* positive.
QtySales ==
  {SaleBody(<<CatalogItem("p1", "S", a)>>) : a \in {-1, 0, 1, MaxQty}}
  \cup {SaleBody(<<CatalogItem("p1", "S", a), CatalogItem("p1", "S", b)>>) :
          a, b \in {-1, 0, 1, MaxQty}}
  \cup {SaleBody(<<ItemA, ItemA, ItemA>>), SaleBody(<<ItemA, ItemC, ItemA>>)}

\* Such sales, one after another.
NextQty ==
  \/ \E body \in QtySales : BeginSale("r1", body)
  \/ SaleItem("r1")
  \/ SaleStock("r1")
  \/ Commit("r1")
  \/ Readback("r1")
  \/ StoreError("r1")

SpecQty == Init /\ [][NextQty]_vars

\* Requests of the product deletion handlers.
RemoveBody(bulk, ids) ==
  [kind |-> "remove", role |-> "admin", bulk |-> bulk, productIds |-> ids]

\* Deletions of one product, present or not, and of lists of products, by
\* an admin and by an employee.
Removals ==
  {RemoveBody(FALSE, <<p>>) : p \in Products \cup {Ghost}}
  \cup {RemoveBody(TRUE, l) : l \in {<< >>, <<"p1">>, <<"p1", "p2">>, <<Ghost, "p2">>,
                                      <<Ghost>>}}
  \cup {[RemoveBody(FALSE, <<"p1">>) EXCEPT !.role = "employee"]}

\* Sales of the products that may be deleted, and of a manual item.
RemovalSales ==
  {SaleBody(<<i>>) : i \in {CatalogItem("p1", "S", 1), CatalogItem("p2", "S", 1),
                            ManualItem(1)}}
  \cup {SaleBody(<<CatalogItem("p1", "S", 1), CatalogItem("p2", "S", 1)>>)}

\* Sales and product deletions run one after another.
NextRemoval ==
  \/ \E body \in RemovalSales : BeginSale("r1", body)
  \/ \E body \in Removals : BeginRemove("r1", body)
  \/ SaleItem("r1")
  \/ SaleStock("r1")
  \/ Commit("r1")
  \/ Readback("r1")
  \/ RemoveWrite("r1")
  \/ CommitRemove("r1")
  \/ StoreError("r1")

SpecRemoval == Init /\ [][NextRemoval]_vars

\* A manual item as the point-of-sale client sends it.
ManualOf(title, code, size, q, price, discount) ==
  [ManualItem(q) EXCEPT !.title = title, !.code = code, !.selectedSize = size,
                        !.unitPrice = price, !.discount = discount,
                        !.finalPrice = price * q - discount]

\* Manual items: the client's default; one that carries the title, the
\* code, a size and more than the stock of product p1; the same with p1's
\* uuid in productId; one of a caller that also sends manualPrice.
ManualPlain == ManualOf("Manual Item", "N/A", NoSize, 1, PriceOf("p2"), 0)
ManualLikeP1 ==
  ManualOf(TitleOf("p1"), CodeOf("p1"), "S", MaxStock + 1, PriceOf("p1"), 1)
ManualWithId == [ManualLikeP1 EXCEPT !.productId = "p1"]
ManualPriced == [ManualPlain EXCEPT !.manualPrice = Num(PriceOf("p2"))]

\* Catalog items of p2, which has no size in the ledger runs.
ItemP2(s, q) == CatalogItem("p2", s, q)

\* Catalog items of p1 with a discount, with a final price that is not
\* the one of its unit price, quantity and discount, and built from a copy
\* of the product taken before its title and price changed.
ItemDiscounted ==
  [ItemB EXCEPT !.discount = 1, !.finalPrice = PriceOf("p1") * MaxQty - 1]
ItemMispriced == [ItemA EXCEPT !.finalPrice = 0]
ItemStale ==
  [ItemA EXCEPT !.title = "former title", !.code = "former code",
                !.unitPrice = PriceOf("p1") - 1, !.finalPrice = PriceOf("p1") - 1]

\* A sale as the client submits it: totalAmount is the sum it computed.
LedgerBody(items) ==
  [SaleBody(items) EXCEPT !.totalAmount = Num(SumFinalPrice(items, Len(items)))]

\* Requests of the ledger runs.
LedgerSales ==
  {LedgerBody(<<i>>) :
     i \in {ManualPlain, ManualLikeP1, ManualWithId, ManualPriced, ItemA, ItemB,
            ItemP2("S", 1), ItemP2("S", MaxStock + 1), ItemP2("M", MaxQty),
            ItemP2(NoSize, 1), ItemDiscounted, ItemMispriced, ItemStale}}
  \cup {LedgerBody(<<ItemA, ManualLikeP1>>), LedgerBody(<<ItemP2("S", MaxStock + 1), ItemB>>),
        LedgerBody(<<ItemA, ItemB>>), LedgerBody(<<ManualPlain, ItemG>>)}
  \cup {[LedgerBody(<<ItemA>>) EXCEPT !.totalAmount = Num(0)],
        LedgerBody(<< >>),
        [LedgerBody(<< >>) EXCEPT !.itemsIsArray = FALSE],
        [LedgerBody(<<ItemA>>) EXCEPT !.totalAmount = Absent],
        [LedgerBody(<<ItemA>>) EXCEPT !.paymentMethod = Undefined],
        [LedgerBody(<<ItemA>>) EXCEPT !.paymentMethod = ""]}

\* A uuid no sale has.
NoSale == 0

\* A catalog item that carries a full-size image.
ItemFull == [ItemA EXCEPT !.fullSizeImage = "full_p1"]

Updates ==
  {UpdateBody(1, l) :
     l \in {<<ItemB>>, <<ItemFull>>, <<ItemA, ItemStale>>, <<ItemA, ItemG>>,
            <<ManualPlain>>, << >>}}
  \cup {UpdateBody(NoSale, <<ItemA>>),
        [UpdateBody(1, <<ItemA>>) EXCEPT !.role = "employee"],
        [UpdateBody(1, <<ItemA>>) EXCEPT !.totalAmount = Absent],
        [UpdateBody(1, <<ItemA>>) EXCEPT !.totalAmount = Num(0)]}

Deletes ==
  {DeleteBody(l) : l \in {<<1>>, <<1, 2>>, <<NoSale>>, << >>}}
  \cup {[DeleteBody(<<1>>) EXCEPT !.role = "employee"]}

\* Requests of the catalog runs: sales of p1 and of p2, and edits of p1.
CatalogSales ==
  {SaleBody(<<i>>) : i \in {ItemA, ItemD, ManualItem(1)}}
  \cup {SaleBody(<<ItemA, ItemD>>), SaleBody(<<ItemG>>)}

Edits ==
  {[EditBody("p1") EXCEPT !.title = " retitled "],
   [EditBody("p1") EXCEPT !.code = "recoded"],
   [EditBody("p1") EXCEPT !.price = Num(PriceOf("p1") + 1)],
   [EditBody("p1") EXCEPT !.image = "reimaged"],
   [EditBody("p1") EXCEPT !.title = "renamed", !.code = "recoded",
                          !.price = Num(PriceOf("p1") + 1), !.image = "reimaged"],
   [EditBody("p1") EXCEPT !.code = CodeOf("p2")],
   [EditBody("p1") EXCEPT !.title = "renamed", !.hasSizes = TRUE,
                          !.sizes = <<Entry("S", MaxStock), Entry("M", 0)>>],
   [EditBody("p1") EXCEPT !.hasSizes = TRUE, !.sizes = <<Entry("S", -1)>>],
   [EditBody("p1") EXCEPT !.hasSizes = TRUE,
                          !.sizes = <<Entry("S", 1), Entry("S", 0)>>],
   [EditBody(Ghost) EXCEPT !.title = "renamed"],
   [EditBody("p1") EXCEPT !.title = "renamed", !.role = "employee"]}

\* Sales and product edits run one after another on one handler slot, in
\* a store where p2 has no size.
NextCatalog ==
  \/ \E body \in CatalogSales : BeginSale("r1", body)
  \/ SaleItem("r1")
  \/ SaleStock("r1")
  \/ \E body \in Edits : BeginEdit("r1", body)
  \/ EditWrite("r1")
  \/ Commit("r1")
  \/ Readback("r1")
  \/ StoreError("r1")

SpecCatalog == InitLedger /\ [][NextCatalog]_vars

\* Sales, updates and deletions of sales run one after another on one
\* handler slot, in a store where p2 has no size.
NextLedger ==
  \/ \E body \in LedgerSales : BeginSale("r1", body)
  \/ SaleItem("r1")
  \/ SaleStock("r1")
  \/ \E body \in Updates : BeginUpdate("r1", body)
  \/ UpdateItem("r1")
  \/ \E body \in Deletes : BeginDelete("r1", body)
  \/ DeleteLoop("r1")
  \/ CommitDelete("r1")
  \/ Commit("r1")
  \/ Readback("r1")
  \/ StoreError("r1")

SpecLedger == InitLedger /\ [][NextLedger]_vars

\* formatSaleForResponse: the sale a read returns for the header and the
\* line items stored; an item carries product_uuid as productId and has no
\* isManual field.
formatSaleForResponse(saleRowFromDb, itemsFromDb) ==
  [totalAmount |-> Num(saleRowFromDb.total_amount),
   paymentMethod |-> saleRowFromDb.payment_method,
   items |-> [j \in DOMAIN itemsFromDb |->
                [productId |-> itemsFromDb[j].product_uuid,
                 title |-> itemsFromDb[j].title,
                 code |-> itemsFromDb[j].code,
                 image |-> itemsFromDb[j].image,
                 fullSizeImage |-> itemsFromDb[j].full_size_image,
                 selectedSize |-> itemsFromDb[j].selected_size,
                 quantity |-> itemsFromDb[j].quantity,
                 unitPrice |-> itemsFromDb[j].unit_price,
                 discount |-> itemsFromDb[j].discount,
                 finalPrice |-> itemsFromDb[j].final_price]]]

\* The update request of an admin who sends a sale back as read.
ReadBack(id, tblSales, tblItems) ==
  LET sale == formatSaleForResponse(tblSales[id], tblItems[id])
  IN [kind |-> "update", role |-> "admin", saleUuid |-> id, items |-> sale.items,
      itemsIsArray |-> TRUE, totalAmount |-> sale.totalAmount,
      paymentMethod |-> sale.paymentMethod]

\* An admin reads a stored sale and submits it, unedited, as an update.
Resubmit(r) ==
  \E id \in DOMAIN sales : BeginUpdate(r, ReadBack(id, sales, sale_items))

\* Sales of catalog and manual items as the client submits them.
ResubmitSales ==
  {LedgerBody(l) :
     l \in {<<ItemA>>, <<ItemB>>, <<ItemFull>>, <<ManualPlain>>, <<ManualPriced>>,
            <<ItemA, ManualPlain>>, <<ItemFull, ItemA>>, <<ItemP2("S", 1)>>}}

\* Sales, each of which may then be read and sent back as an update.
NextResubmit ==
  \/ \E body \in ResubmitSales : BeginSale("r1", body)
  \/ SaleItem("r1")
  \/ SaleStock("r1")
  \/ Resubmit("r1")
  \/ UpdateItem("r1")
  \/ Commit("r1")
  \/ Readback("r1")
  \/ StoreError("r1")

SpecResubmit == InitLedger /\ [][NextResubmit]_vars

\* ------------------------------------------------- properties
\* The call of r has returned.
Returned(r) == pc[r] = "done"

\* The call of r was a commitSale aborted for an unknown product id or for
\* insufficient stock.
SaleAborted(r) ==
  /\ Returned(r)
  /\ req[r].kind = "sale"
  /\ resp[r].status = 400
  /\ resp[r].error \in {"notfound", "insufficient"}

\* C1: after a commitSale that aborted because a product id does not exist
\* or a size lacks stock, the store holds no sale header and no line item of
\* that call and every stock count has its value from before the call, also
\* the counts earlier items of the sale had decremented.
AbortedSaleLeavesNoTrace ==
  \A r \in Reqs :
    SaleAborted(r) =>
      /\ saleId[r] \notin DOMAIN sales
      /\ saleId[r] \notin DOMAIN sale_items
      /\ sales = pre[r].sales
      /\ sale_items = pre[r].items
      /\ product_sizes = pre[r].sizes

\* A sale aborted at its second item after its first item, a catalog item
\* with enough stock, had been processed.
AbortedAfterValidItem ==
  \E r \in Reqs :
    /\ SaleAborted(r)
    /\ idx[r] = 2
    /\ LET first == req[r].items[1]
           k == <<first.productId, first.selectedSize>>
       IN /\ ~first.isManual
          /\ k \in DOMAIN pre[r].sizes
          /\ pre[r].sizes[k] >= first.quantity
          /\ product_sizes[k] = pre[r].sizes[k]

\* The request of r is a commitSale of exactly one catalog item that sells
\* from a size.
SingleItemSale(body) ==
  /\ body.kind = "sale"
  /\ Len(body.items) = 1
  /\ ~body.items[1].isManual
  /\ body.items[1].selectedSize # NoSize
KeyOfSale(body) == <<body.items[1].productId, body.items[1].selectedSize>>
QtyOfSale(body) == body.items[1].quantity

Committed(r) == Returned(r) /\ resp[r].status \in {200, 201}
FailedInsufficient(r) ==
  Returned(r) /\ resp[r].status = 400 /\ resp[r].error = "insufficient"

\* Two sales of the same product and size, both begun on stock S, each
\* within S and together beyond it.
Overselling(a, b) ==
  /\ a # b
  /\ SingleItemSale(req[a]) /\ SingleItemSale(req[b])
  /\ KeyOfSale(req[a]) = KeyOfSale(req[b])
  /\ KeyOfSale(req[a]) \in DOMAIN pre[a].sizes
  /\ pre[a].sizes = pre[b].sizes
  /\ LET S == pre[a].sizes[KeyOfSale(req[a])]
     IN /\ QtyOfSale(req[a]) <= S
        /\ QtyOfSale(req[b]) <= S
        /\ QtyOfSale(req[a]) + QtyOfSale(req[b]) > S

\* C2: of two concurrent single-item sales of one product and size whose
\* quantities fit the stock one by one but not together, exactly one
\* commits and the other fails for insufficient stock (runs in which the
\* store itself fails a statement set aside).
OversellingPairOneCommits ==
  \A a, b \in Reqs :
    (/\ Overselling(a, b)
     /\ Returned(a) /\ Returned(b)
     /\ resp[a].status # 500 /\ resp[b].status # 500)
    => \/ Committed(a) /\ FailedInsufficient(b)
       \/ Committed(b) /\ FailedInsufficient(a)

\* C3: every stock count of the committed store is >= 0 in every reachable
\* state, requests overlapping or not.
StockNeverNegative ==
  \A k \in DOMAIN product_sizes : product_sizes[k] >= 0

\* Sum of the quantities of the first n calls of history h.
RECURSIVE SumQty(_, _)
SumQty(h, n) == IF n = 0 THEN 0 ELSE SumQty(h, n - 1) + QtyOfSale(h[n].req)

\* All calls r has completed are successful single-item sales of q > 0
\* units of key k, which had a stock row when the first of them began.
OnlySalesOf(r, k) ==
  /\ Len(hist[r]) >= 1
  /\ k \in DOMAIN hist[r][1].before
  /\ \A i \in DOMAIN hist[r] :
       /\ SingleItemSale(hist[r][i].req)
       /\ KeyOfSale(hist[r][i].req) = k
       /\ QtyOfSale(hist[r][i].req) > 0
       /\ hist[r][i].status = 201

\* C4: after N successful sales run one after another, each of one catalog
\* item selling q_i > 0 units of one size that started at stock S, the
\* stock of that size is S minus the sum of the q_i and every other stock
\* count is unchanged.
SequentialSalesConserveStock ==
  \A r \in Reqs : \A k \in Keys :
    (Returned(r) /\ OnlySalesOf(r, k)) =>
      LET S == hist[r][1].before[k]
      IN product_sizes =
           [hist[r][1].before EXCEPT ![k] = S - SumQty(hist[r], Len(hist[r]))]

\* Two successful sales in a row from one size.
TwoSalesOfOneSize ==
  \E r \in Reqs : \E k \in Keys :
    /\ Returned(r) /\ OnlySalesOf(r, k)
    /\ Len(hist[r]) >= 2
    /\ product_sizes[k] < hist[r][1].before[k]

\* C5: commitSale reports success exactly when its transaction committed;
\* after an error response the store holds no header, no line item and no
\* stock decrement of that call, whichever step failed.
ErrorMeansNothingCommitted ==
  \A r \in Reqs :
    (Returned(r) /\ req[r].kind = "sale") =>
      /\ resp[r].status = 201 <=> txn[r] = "committed"
      /\ resp[r].status # 201 =>
           /\ saleId[r] \notin DOMAIN sales
           /\ saleId[r] \notin DOMAIN sale_items
           /\ product_sizes = pre[r].sizes

\* Stock of the size of item j of the sale of r when the loop reaches it:
\* the stock before the call less what the earlier items of the sale took
\* from the same size.
RECURSIVE TakenBefore(_, _, _)
TakenBefore(items, k, j) ==
  IF j <= 1 THEN 0
  ELSE TakenBefore(items, k, j - 1)
       + (IF /\ ~items[j - 1].isManual
             /\ <<items[j - 1].productId, items[j - 1].selectedSize>> = k
          THEN items[j - 1].quantity ELSE 0)

ItemKey(r, j) == <<req[r].items[j].productId, req[r].items[j].selectedSize>>
AvailableAt(r, j) ==
  pre[r].sizes[ItemKey(r, j)] - TakenBefore(req[r].items, ItemKey(r, j), j)

\* Item j of the sale of r is a catalog item whose size has a stock row
\* with less stock than the item's quantity when the loop reaches it.
Short(r, j) ==
  /\ ~req[r].items[j].isManual
  /\ req[r].items[j].selectedSize # NoSize
  /\ ItemKey(r, j) \in DOMAIN pre[r].sizes
  /\ AvailableAt(r, j) < req[r].items[j].quantity

\* The sale of r aborts at the first short item in submission order and
\* reports that item; a sale that commits has no short item.
AbortsAtFirstShortItem(r) ==
  /\ FailedInsufficient(r) =>
       /\ Short(r, idx[r])
       /\ \A j \in 1..(idx[r] - 1) : ~Short(r, j)
       /\ resp[r].info.title = req[r].items[idx[r]].title
       /\ resp[r].info.size = req[r].items[idx[r]].selectedSize
       /\ resp[r].info.available = AvailableAt(r, idx[r])
       /\ resp[r].info.requested = req[r].items[idx[r]].quantity
  /\ resp[r].status = 201 => \A j \in DOMAIN req[r].items : ~Short(r, j)

\* C6 (as stated): items are processed in order, the sale aborts at the
\* first item short of stock, the error reports that item with available =
\* the stock at the check and requested = its quantity, and the stock of
\* that size stays at the available value.
ShortItemLeavesAvailable ==
  \A r \in Reqs :
    (Returned(r) /\ req[r].kind = "sale") =>
      /\ AbortsAtFirstShortItem(r)
      /\ FailedInsufficient(r) =>
           product_sizes[ItemKey(r, idx[r])] = resp[r].info.available

\* C6 (amended): as above, but the stock of that size stays at its value
\* from before the call, which is the available value plus what earlier
\* items of the same sale had taken from that size; it is not negative.
ShortItemLeavesStockAsBefore ==
  \A r \in Reqs :
    (Returned(r) /\ req[r].kind = "sale") =>
      /\ AbortsAtFirstShortItem(r)
      /\ FailedInsufficient(r) =>
           LET k == ItemKey(r, idx[r])
           IN /\ product_sizes[k] = pre[r].sizes[k]
              /\ product_sizes[k] =
                   resp[r].info.available + TakenBefore(req[r].items, k, idx[r])
              /\ product_sizes[k] >= 0

\* A sale aborted at its second item for lack of stock, after its first
\* item had taken from the same size.
SecondItemShortOfSameSize ==
  \E r \in Reqs :
    /\ FailedInsufficient(r)
    /\ idx[r] = 2
    /\ TakenBefore(req[r].items, ItemKey(r, 2), 2) > 0
    /\ resp[r].info.available < product_sizes[ItemKey(r, 2)]

\* The call of r asked to sell more of a size than its stock row held when
\* the call began: through the sell mode of adjustStock, or as the only
\* item of a commitSale.
SellsBeyondStock(r) ==
  \/ /\ req[r].kind = "adjust"
     /\ ~Forbidden(req[r])
     /\ Mode(req[r]) = "sell"
     /\ ~IsNaN(req[r].newStock)
     /\ <<req[r].productId, req[r].sizeName>> \in DOMAIN pre[r].sizes
     /\ QuantitySold(req[r]) > pre[r].sizes[<<req[r].productId, req[r].sizeName>>]
  \/ /\ SingleItemSale(req[r])
     /\ KeyOfSale(req[r]) \in DOMAIN pre[r].sizes
     /\ QtyOfSale(req[r]) > pre[r].sizes[KeyOfSale(req[r])]

\* C7: a sell request for more than the current stock of the size is
\* rejected with an error and leaves the stock unchanged; it never clamps
\* the stock to zero.
SellNeverClamps ==
  \A r \in Reqs :
    (Returned(r) /\ SellsBeyondStock(r)) =>
      /\ resp[r].status >= 400
      /\ product_sizes = pre[r].sizes

\* The call of r is an adjustStock that took the branch m and committed.
AdjustCommitted(r, m) ==
  /\ Returned(r)
  /\ req[r].kind = "adjust"
  /\ Mode(req[r]) = m
  /\ txn[r] = "committed"

\* C8: setAbsolute(product, size, newStock) with a numeric newStock sets the
\* stock of that size to max(0, newStock), creating the row if the product
\* did not have it, and changes no other size and no other product.
SetAbsoluteSetsOneSize ==
  \A r \in Reqs :
    AdjustCommitted(r, "setAbsolute") =>
      LET k == <<req[r].productId, req[r].sizeName>>
          v == req[r].newStock.v
      IN /\ DOMAIN product_sizes = DOMAIN pre[r].sizes \cup {k}
         /\ product_sizes[k] = (IF v < 0 THEN 0 ELSE v)
         /\ \A x \in DOMAIN product_sizes \ {k} : product_sizes[x] = pre[r].sizes[x]

\* A setAbsolute with a negative value that created the row of its size.
SetAbsoluteCreatedRow ==
  \E r \in Reqs :
    /\ AdjustCommitted(r, "setAbsolute")
    /\ resp[r].status = 200
    /\ req[r].newStock.v < 0
    /\ <<req[r].productId, req[r].sizeName>> \notin DOMAIN pre[r].sizes
    /\ product_sizes[<<req[r].productId, req[r].sizeName>>] = 0

AllNumeric(list) == \A i \in DOMAIN list : ~IsNaN(list[i].stock)

\* C9: after a successful replaceAll(product, list) the size rows of the
\* product are exactly the entries of the list, each with stock
\* max(0, given stock); no other row of the product remains and the rows
\* of other products are unchanged.
ReplaceAllInstallsList ==
  \A r \in Reqs :
    (AdjustCommitted(r, "replaceAll") /\ AllNumeric(req[r].updatedSizesArray)) =>
      LET p == req[r].productId
          list == req[r].updatedSizesArray
      IN /\ \A k \in Keys :
              k[1] = p => (k \in DOMAIN product_sizes
                             <=> \E i \in DOMAIN list : list[i].size = k[2])
         /\ \A i \in DOMAIN list :
              /\ <<p, list[i].size>> \in DOMAIN product_sizes
              /\ product_sizes[<<p, list[i].size>>] =
                   (IF list[i].stock.v < 0 THEN 0 ELSE list[i].stock.v)
         /\ \A k \in Keys :
              k[1] # p => /\ k \in DOMAIN product_sizes <=> k \in DOMAIN pre[r].sizes
                          /\ k \in DOMAIN product_sizes => product_sizes[k] = pre[r].sizes[k]

\* A successful replaceAll with a non-empty list that removed a size row the
\* list does not name.
ReplaceAllDroppedRow ==
  \E r \in Reqs :
    /\ AdjustCommitted(r, "replaceAll")
    /\ resp[r].status = 200
    /\ Len(req[r].updatedSizesArray) >= 1
    /\ AllNumeric(req[r].updatedSizesArray)
    /\ \E k \in DOMAIN pre[r].sizes :
         k[1] = req[r].productId /\ k \notin DOMAIN product_sizes

\* The last two calls of r are successful replaceAll calls with one list.
ReplacedTwice(r) ==
  /\ Returned(r)
  /\ Len(hist[r]) >= 2
  /\ LET n == Len(hist[r])
     IN /\ hist[r][n].req = hist[r][n - 1].req
        /\ hist[r][n].req.kind = "adjust"
        /\ Mode(hist[r][n].req) = "replaceAll"
        /\ hist[r][n].status = 200
        /\ hist[r][n - 1].status = 200

\* C10: replaceAll is idempotent: calling it twice in a row with the same
\* list leaves the same stock state as calling it once.
ReplaceAllIdempotent ==
  \A r \in Reqs :
    ReplacedTwice(r) =>
      hist[r][Len(hist[r])].after = hist[r][Len(hist[r]) - 1].after

\* Two successful replaceAll calls in a row with one non-empty list, the
\* first of which changed the store.
ReplacedTwiceAfterChange ==
  \E r \in Reqs :
    /\ ReplacedTwice(r)
    /\ Len(hist[r][Len(hist[r])].req.updatedSizesArray) >= 1
    /\ hist[r][Len(hist[r]) - 1].after # hist[r][Len(hist[r]) - 1].before
    /\ product_sizes = hist[r][Len(hist[r]) - 1].after

\* ------------------------------------------------- snapshots and the ledger
\* The call of r was an edit of a product that committed.
Edited(r) == Returned(r) /\ req[r].kind = "edit" /\ txn[r] = "committed"

\* C11: an edit of a product (title, code, price, image, sizes), whether
\* it commits or fails, leaves every line item of every committed sale as it
\* was when the edit began: the columns title, code, image, selected_size,
\* quantity, unit_price, discount and final_price of each stored row.
EditLeavesSaleItemsUnchanged ==
  \A r \in Reqs :
    req[r].kind = "edit" => sale_items = pre[r].items /\ sales = pre[r].sales

\* An edit has changed title, code, price and image of a product of which
\* a committed sale holds a line item with the former values.
EditedAfterSale ==
  \E r \in Reqs, i \in DOMAIN sale_items :
    /\ Edited(r)
    /\ \E j \in DOMAIN sale_items[i] :
         LET row == sale_items[i][j]
         IN /\ row.product_uuid = req[r].productId
            /\ row.title # catalog[req[r].productId].title
            /\ row.code # catalog[req[r].productId].code
            /\ row.image # catalog[req[r].productId].image
            /\ row.unit_price # catalog[req[r].productId].price

\* The call of r was a commitSale that committed; its rows are stored
\* under saleId[r].
Sold(r) ==
  /\ Returned(r)
  /\ req[r].kind = "sale"
  /\ txn[r] = "committed"
  /\ saleId[r] \in DOMAIN sale_items

\* Quantity the catalog items of a request take from the size of key k.
CatalogQty(items, k) == TakenBefore(items, k, Len(items) + 1)

\* C12: the row stored for a manual line item has neither product_id nor
\* product_uuid, and a committed sale changes each stock count by the
\* quantities of its catalog items only: its manual items, whatever title,
\* code, size label, quantity or productId they carry, change none.
ManualItemsUnlinked ==
  \A r \in Reqs :
    Sold(r) =>
      /\ Len(sale_items[saleId[r]]) = Len(req[r].items)
      /\ \A j \in DOMAIN req[r].items :
           req[r].items[j].isManual =>
             /\ sale_items[saleId[r]][j].product_id = NULL
             /\ sale_items[saleId[r]][j].product_uuid = NULL
      /\ DOMAIN product_sizes = DOMAIN pre[r].sizes
      /\ \A k \in DOMAIN product_sizes :
           product_sizes[k] = pre[r].sizes[k] - CatalogQty(req[r].items, k)

\* A sale was committed with a manual item that carries the uuid, the
\* title, the code and a size of p1 and more units than p1 has of it.
ManualSoldLikeProduct ==
  \E r \in Reqs :
    /\ Sold(r)
    /\ resp[r].status = 201
    /\ \E j \in DOMAIN req[r].items :
         /\ req[r].items[j] = ManualWithId
         /\ <<"p1", "S">> \in DOMAIN pre[r].sizes
         /\ req[r].items[j].quantity > pre[r].sizes[<<"p1", "S">>]

\* The product of the item has no row in product_sizes when the call of r
\* begins.
ZeroSizes(r, item) ==
  /\ ~item.isManual
  /\ item.productId \in products
  /\ KeysOf(item.productId) \cap DOMAIN pre[r].sizes = {}

\* C13: a commitSale that fails with the insufficient-stock error fails at
\* an item whose product has at least one size defined; a sale all of whose
\* items are manual or of products without sizes is never answered 400.
ZeroSizeItemNeverShort ==
  \A r \in Reqs :
    Returned(r) /\ req[r].kind = "sale" /\ ~MissingSaleFields(req[r]) =>
      /\ resp[r].error = "insufficient" => ~ZeroSizes(r, req[r].items[idx[r]])
      /\ (\A j \in DOMAIN req[r].items :
            req[r].items[j].isManual \/ ZeroSizes(r, req[r].items[j]))
           => resp[r].status # 400

\* A sale was committed with an item of a product without sizes that names
\* a size and asks for more units than any stock of the store.
ZeroSizeItemSold ==
  \E r \in Reqs :
    /\ Sold(r)
    /\ resp[r].status = 201
    /\ \E j \in DOMAIN req[r].items :
         /\ ZeroSizes(r, req[r].items[j])
         /\ req[r].items[j].selectedSize \in Sizes
         /\ req[r].items[j].quantity > MaxStock
         /\ sale_items[saleId[r]][j].quantity = req[r].items[j].quantity

\* The uuids a deletion request names.
NamedSales(body) == {body.saleIds[i] : i \in DOMAIN body.saleIds}

\* C14: a deletion of sales never changes a stock count, whether it
\* commits or fails; once it has succeeded, the sales it names have neither
\* header nor line items, and every other sale is as it was.
DeleteLeavesStock ==
  \A r \in Reqs :
    req[r].kind = "delete" =>
      /\ product_sizes = pre[r].sizes
      /\ Returned(r) /\ resp[r].status = 200 =>
           /\ DOMAIN sales = DOMAIN pre[r].sales \ NamedSales(req[r])
           /\ DOMAIN sale_items = DOMAIN pre[r].items \ NamedSales(req[r])
           /\ \A i \in DOMAIN sales :
                sales[i] = pre[r].sales[i] /\ sale_items[i] = pre[r].items[i]

\* A deletion succeeded that removed a sale whose line item had taken
\* stock from a size.
DeletedSaleThatTookStock ==
  \E r \in Reqs :
    /\ Returned(r)
    /\ req[r].kind = "delete"
    /\ resp[r].status = 200
    /\ \E i \in NamedSales(req[r]) \cap DOMAIN pre[r].items :
         \E j \in DOMAIN pre[r].items[i] :
           /\ <<pre[r].items[i][j].product_uuid, pre[r].items[i][j].selected_size>>
                \in DOMAIN product_sizes
           /\ pre[r].items[i][j].quantity >= 1

\* The body of a commitSale lacks the item list, or has an empty one, or
\* lacks totalAmount or paymentMethod.
LacksRequired(body) ==
  \/ ~body.itemsIsArray
  \/ body.items = << >>
  \/ body.totalAmount = Absent
  \/ body.paymentMethod = Undefined

\* C15: a commitSale whose body lacks a required field is answered 400
\* (validation) at once, without a transaction, and the store stays as it
\* was: the handler is never found in its transaction with such a body.
SaleLackingFieldsRejected ==
  \A r \in Reqs :
    req[r].kind = "sale" /\ LacksRequired(req[r]) =>
      /\ Returned(r)
      /\ resp[r].status = 400
      /\ resp[r].error = "missing"
      /\ txn[r] = "none"
      /\ product_sizes = pre[r].sizes
      /\ sales = pre[r].sales
      /\ sale_items = pre[r].items

\* A commitSale without totalAmount was rejected while the ledger held
\* a sale.
RejectedWithoutTotal ==
  \E r \in Reqs :
    /\ Returned(r)
    /\ req[r].kind = "sale"
    /\ req[r].totalAmount = Absent
    /\ req[r].items # << >>
    /\ resp[r].status = 400
    /\ DOMAIN sales # {}

\* The call of r was an updateSale that succeeded.
Updated(r) == Returned(r) /\ req[r].kind = "update" /\ resp[r].status = 200

\* The row carries the fields of the item other than the full-size image.
SnapshotOfItem(row, item) ==
  /\ row.product_uuid = item.productId
  /\ row.title = item.title
  /\ row.code = item.code
  /\ row.image = item.image
  /\ row.selected_size = item.selectedSize
  /\ row.quantity = item.quantity
  /\ row.unit_price = item.unitPrice
  /\ row.discount = item.discount
  /\ row.final_price = item.finalPrice

\* The row carries every field of the item; an empty full-size image is
\* no image.
SameAsItem(row, item) ==
  /\ SnapshotOfItem(row, item)
  /\ item.fullSizeImage # "" => row.full_size_image = item.fullSizeImage

\* An updateSale that fails before its commit leaves the header and the
\* line items of every sale as they were.
FailedUpdateKeepsSale ==
  \A r \in Reqs :
    req[r].kind = "update" /\ txn[r] # "committed" =>
      sales = pre[r].sales /\ sale_items = pre[r].items

\* After a successful updateSale the sale has one row per submitted item,
\* in order, with the item's fields other than the full-size image.
UpdateInstallsSnapshots ==
  \A r \in Reqs :
    Updated(r) =>
      /\ Len(sale_items[req[r].saleUuid]) = Len(req[r].items)
      /\ \A j \in DOMAIN req[r].items :
           SnapshotOfItem(sale_items[req[r].saleUuid][j], req[r].items[j])

\* C16: after a successful updateSale the line items of the sale are
\* exactly the submitted list, field by field, and an updateSale that fails
\* part-way leaves the header and the line items the sale had.
UpdateReplacesItems ==
  /\ FailedUpdateKeepsSale
  /\ \A r \in Reqs :
       Updated(r) =>
         /\ Len(sale_items[req[r].saleUuid]) = Len(req[r].items)
         /\ \A j \in DOMAIN req[r].items :
              SameAsItem(sale_items[req[r].saleUuid][j], req[r].items[j])

\* An updateSale failed at its second item, after the rows of the sale
\* were deleted and the first item inserted.
UpdateFailedPartWay ==
  \E r \in Reqs :
    /\ Returned(r)
    /\ req[r].kind = "update"
    /\ resp[r].error = "notfound"
    /\ idx[r] = 2
    /\ req[r].saleUuid \in DOMAIN sale_items

\* The call of r was an adjustStock answered with an error.
AdjustFailed(r) ==
  Returned(r) /\ req[r].kind = "adjust" /\ resp[r].status >= 400

StoredFinalPriceIsComputed ==
  \A r \in Reqs :
    Sold(r) =>
      \A j \in DOMAIN sale_items[saleId[r]] :
        LET row == sale_items[saleId[r]][j]
        IN row.final_price = row.unit_price * row.quantity - row.discount

\* Sum of the final prices of the first n rows of a sale.
RECURSIVE SumStored(_, _)
SumStored(rows, n) ==
  IF n = 0 THEN 0 ELSE SumStored(rows, n - 1) + rows[n].final_price

\* C19: the total_amount of every sale of the ledger is the sum of the
\* final prices of the rows stored for the sale.
TotalIsSumOfItems ==
  \A i \in DOMAIN sales :
    sales[i].total_amount = SumStored(sale_items[i], Len(sale_items[i]))

\* C20: title, code and unit price of every row a committed commitSale
\* has stored for a catalog item are those of the product in the catalog
\* at the commit (no edit follows the sale while its call is the last).
SnapshotIsCatalog ==
  \A r \in Reqs :
    Sold(r) =>
      \A j \in DOMAIN sale_items[saleId[r]] :
        LET row == sale_items[saleId[r]][j]
        IN row.product_id # NULL =>
             /\ row.title = catalog[row.product_id].title
             /\ row.code = catalog[row.product_id].code
             /\ row.unit_price = catalog[row.product_id].price

\* ------------------------------------------------- overlap, input checks
\* The product+size pairs the catalog items of a sale name.
SaleKeys(body) ==
  {<<body.items[j].productId, body.items[j].selectedSize>> :
     j \in {i \in DOMAIN body.items : ~body.items[i].isManual}}

\* The call of r is a commitSale past its validation each of whose pairs
\* had, when the call began, a stock row that covers what the sale takes
\* from it.
SaleWithStock(r) ==
  /\ req[r].kind = "sale"
  /\ ~MissingSaleFields(req[r])
  /\ \A k \in SaleKeys(req[r]) :
       /\ k \in DOMAIN pre[r].sizes
       /\ pre[r].sizes[k] >= CatalogQty(req[r].items, k)

\* The slots a and b serve sales with stock that have no pair in common.
DisjointSales(a, b) ==
  /\ a # b
  /\ SaleWithStock(a)
  /\ SaleWithStock(b)
  /\ SaleKeys(req[a]) \cap SaleKeys(req[b]) = {}

\* C21: of two commitSale calls with stock on disjoint pairs neither is
\* refused nor made to wait for a lock of the other, whatever the order of
\* their steps; unless the store fails both answer 201, and once both have
\* committed every stock count is the one before less what the two sales
\* take, as when one runs after the other.
DisjointSalesBothCommit ==
  \A a, b \in Reqs :
    DisjointSales(a, b) =>
      /\ pc[a] = "stock" =>
           LockFree(a, {<<req[a].items[idx[a]].productId,
                          req[a].items[idx[a]].selectedSize>>})
      /\ Returned(a) => resp[a].status = 201 \/ resp[a].error = "store"
      /\ Sold(a) /\ Sold(b) =>
           \A k \in DOMAIN product_sizes :
             product_sizes[k] =
               (IF k \in SaleKeys(req[b]) THEN pre[b].sizes[k] ELSE pre[a].sizes[k])
               - CatalogQty(req[a].items, k) - CatalogQty(req[b].items, k)

\* Two sales on disjoint pairs, both begun before either committed, have
\* both answered 201.
DisjointSalesOverlapped ==
  \E a, b \in Reqs :
    /\ DisjointSales(a, b)
    /\ resp[a].status = 201 /\ resp[b].status = 201
    /\ Returned(a) /\ Returned(b)
    /\ pre[a].sizes = pre[b].sizes
    /\ SaleKeys(req[a]) # {} /\ SaleKeys(req[b]) # {}

\* A direct adjustment (setAbsolute or replaceAll) of an existing product
\* by an allowed user whose stock input is not a number.
DirectAdjustNotANumber(body) ==
  /\ body.kind = "adjust"
  /\ ~Forbidden(body)
  /\ body.productId \in products
  /\ \/ Mode(body) = "setAbsolute" /\ IsNaN(body.newStock)
     \/ /\ Mode(body) = "replaceAll"
        /\ \E i \in DOMAIN body.updatedSizesArray :
             IsNaN(body.updatedSizesArray[i].stock)

\* C22: a direct stock adjustment, setAbsolute or replaceAll, whose stock
\* input is not a number is answered with an error and no stock row is
\* changed by it.
NotANumberStockRejected ==
  \A r \in Reqs :
    DirectAdjustNotANumber(req[r]) =>
      /\ product_sizes = pre[r].sizes
      /\ Returned(r) => resp[r].status >= 400

\* The setAbsolute part of C22: a newStock that is not a number is answered
\* 400 and the rows stay as they were.
NotANumberSetAbsoluteRejected ==
  \A r \in Reqs :
    DirectAdjustNotANumber(req[r]) /\ Mode(req[r]) = "setAbsolute" =>
      /\ product_sizes = pre[r].sizes
      /\ Returned(r) => resp[r].status = 400 /\ resp[r].error = "stockvalue"

\* The transaction of r has ended and its handler has returned.
TransactionEnded(r) ==
  Returned(r) /\ txn[r] \in {"committed", "rolledback"}

\* C23: every commitSale and adjustStock call that has begun a transaction
\* ends it, by its commit or else by a rollback, and then returns, giving
\* back its connection and the locks held through it; no handler that has
\* returned has left a transaction open.
EveryTransactionEnds ==
  /\ [](\A r \in Reqs :
          pc[r] \in {"idle", "done"} => txn[r] # "open" /\ locks[r] = {})
  /\ \A r \in Reqs : (txn[r] = "open") ~> TransactionEnded(r)

\* A sale was rolled back for insufficient stock or an unknown product
\* and an overlapping adjustment has committed, both handlers returned.
SaleRolledBackAdjustCommitted ==
  \E a, b \in Reqs :
    /\ SaleAborted(a) /\ txn[a] = "rolledback"
    /\ req[b].kind = "adjust" /\ TransactionEnded(b) /\ txn[b] = "committed"

\* The line items of the stored sales that were sold of a catalog product.
CatalogRows ==
  {row \in UNION {{sale_items[i][j] : j \in DOMAIN sale_items[i]} :
                    i \in DOMAIN sale_items} :
     row.product_uuid # NULL}

\* C24: no product is deleted from table products while a line item of a
\* stored sale references it: the product reference of every catalog line
\* item resolves to a row of products.
SoldProductsExist ==
  \A row \in CatalogRows :
    row.product_uuid \in products /\ row.product_id = row.product_uuid

\* The call of r is a stock request of an employee without accessInventory
\* that the handler has let into its transaction.
EmployeeAdjusting(r) ==
  /\ req[r].kind = "adjust"
  /\ req[r].role = "employee"
  /\ ~req[r].accessInventory
  /\ txn[r] \in {"open", "committed"}

\* C25: whatever sizeName, newStock, updatedSizesArray and action a request
\* of an employee without accessInventory carries, the only mode it runs
\* is the sell decrement: it performs no setAbsolute and no replaceAll.
EmployeeOnlySells ==
  \A r \in Reqs : EmployeeAdjusting(r) => Mode(req[r]) = "sell"

\* The setAbsolute part of C25: no request of such an employee runs a
\* setAbsolute.
EmployeeNeverSetsAbsolute ==
  \A r \in Reqs : EmployeeAdjusting(r) => Mode(req[r]) # "setAbsolute"

\* C26: a commitSale never increases a stock count: after every sale that
\* was accepted, whatever the quantities of its items (zero and negative
\* ones too), every size has at most the stock it had before the call.
SaleNeverRaisesStock ==
  \A r \in Reqs :
    Sold(r) =>
      \A k \in DOMAIN product_sizes :
        k \in DOMAIN pre[r].sizes /\ product_sizes[k] <= pre[r].sizes[k]

\* The part of C26 for items of quantity zero or more.
SaleOfNoNegativeNeverRaisesStock ==
  \A r \in Reqs :
    Sold(r) /\ (\A j \in DOMAIN req[r].items : req[r].items[j].quantity >= 0) =>
      \A k \in DOMAIN product_sizes :
        k \in DOMAIN pre[r].sizes /\ product_sizes[k] <= pre[r].sizes[k]

\* The call of r is a commitSale past its validation with two or more
\* items, among them at least two catalog items of the pair k, which has a
\* stock row; its other items are of products that exist.
SameSizeSale(r, k) ==
  /\ req[r].kind = "sale"
  /\ ~MissingSaleFields(req[r])
  /\ k \in DOMAIN pre[r].sizes
  /\ \E i, j \in DOMAIN req[r].items :
       /\ i # j
       /\ ~req[r].items[i].isManual /\ ItemKey(r, i) = k
       /\ ~req[r].items[j].isManual /\ ItemKey(r, j) = k
  /\ \A j \in DOMAIN req[r].items :
       /\ req[r].items[j].isManual \/ req[r].items[j].productId \in products
       /\ ~req[r].items[j].isManual /\ ItemKey(r, j) # k =>
            ~Short(r, j)

\* C27: a commitSale with several catalog items of one product and size
\* commits exactly when the sum of their quantities is at most the stock
\* of that size before the call (a store failure aside), and the committed
\* sale has reduced that stock by the sum.
SameSizeItemsSellTheirSum ==
  \A r \in Reqs : \A k \in Keys :
    Returned(r) /\ SameSizeSale(r, k) =>
      LET sum == CatalogQty(req[r].items, k)
          S == pre[r].sizes[k]
      IN /\ resp[r].status = 201 => sum <= S /\ product_sizes[k] = S - sum
         /\ sum <= S => resp[r].status = 201 \/ resp[r].error = "store"

\* C27 for items of positive quantity.
SameSizePositiveItemsSellTheirSum ==
  \A r \in Reqs : \A k \in Keys :
    /\ Returned(r) /\ SameSizeSale(r, k)
    /\ \A j \in DOMAIN req[r].items : req[r].items[j].quantity > 0
    => LET sum == CatalogQty(req[r].items, k)
           S == pre[r].sizes[k]
       IN /\ resp[r].status = 201 => sum <= S /\ product_sizes[k] = S - sum
          /\ sum <= S => resp[r].status = 201 \/ resp[r].error = "store"

\* Item j of the sale of r is a catalog item of an existing product that
\* names a size for which the product had no stock row when the call
\* began.
Rowless(r, j) ==
  /\ ~req[r].items[j].isManual
  /\ req[r].items[j].productId \in products
  /\ req[r].items[j].selectedSize # NoSize
  /\ ItemKey(r, j) \notin DOMAIN pre[r].sizes

\* C28: a catalog item that names a size without a stock row never aborts
\* the sale for insufficient stock, whether or not the product has rows for
\* other sizes; in the committed sale it is stored as a line item, no row is
\* made for its size, and the stock counts change by the quantities of the
\* items that have a row only.
RowlessItemSoldAsIs ==
  \A r \in Reqs :
    Returned(r) /\ req[r].kind = "sale" /\ ~MissingSaleFields(req[r]) =>
      \A j \in DOMAIN req[r].items :
        Rowless(r, j) =>
          /\ FailedInsufficient(r) => idx[r] # j
          /\ Len(req[r].items) = 1 => resp[r].status = 201 \/ resp[r].error = "store"
          /\ Sold(r) /\ resp[r].status = 201 =>
               /\ sale_items[saleId[r]][j] = CatalogRow(req[r].items[j])
               /\ DOMAIN product_sizes = DOMAIN pre[r].sizes
               /\ \A k \in DOMAIN product_sizes :
                    product_sizes[k] = pre[r].sizes[k] - CatalogQty(req[r].items, k)

\* A sale was committed with an item of a size without a stock row whose
\* product has a row for another size.
RowlessItemOfSizedProductSold ==
  \E r \in Reqs :
    /\ Sold(r)
    /\ resp[r].status = 201
    /\ product_sizes = pre[r].sizes
    /\ \E j \in DOMAIN req[r].items :
         /\ Rowless(r, j)
         /\ KeysOf(req[r].items[j].productId) \cap DOMAIN pre[r].sizes # {}

\* C29: after any commitSale, updateSale and sale deletion calls every sale
\* header of the store has at least one line item.
EverySaleHasItems ==
  \A i \in DOMAIN sales :
    i \in DOMAIN sale_items /\ Len(sale_items[i]) >= 1

\* The call of r is an update of a stored sale with the header and the
\* items a read of that sale returned when the call began.
Resubmitted(r) ==
  /\ req[r].kind = "update"
  /\ req[r].saleUuid \in DOMAIN pre[r].sales
  /\ req[r] = ReadBack(req[r].saleUuid, pre[r].sales, pre[r].items)

\* C30: an update of a sale with exactly the items a read of the sale
\* returns succeeds (a store failure aside) and leaves the line items of
\* the sale as they were, for sales of catalog items and of manual items
\* alike.
ResubmittedSaleUnchanged ==
  \A r \in Reqs :
    Returned(r) /\ Resubmitted(r) =>
      /\ resp[r].status = 200 \/ resp[r].error = "store"
      /\ sale_items[req[r].saleUuid] = pre[r].items[req[r].saleUuid]

\* The part of C30 for sales of catalog items only: the update succeeds and
\* stores every column as it was, but full_size_image (left NULL, see C16).
ResubmittedCatalogSaleKept ==
  \A r \in Reqs :
    /\ Returned(r) /\ Resubmitted(r)
    /\ \A j \in DOMAIN req[r].items : req[r].items[j].productId \in products
    => /\ resp[r].status = 200 \/ resp[r].error = "store"
       /\ LET old == pre[r].items[req[r].saleUuid]
              new == sale_items[req[r].saleUuid]
          IN /\ DOMAIN new = DOMAIN old
             /\ \A j \in DOMAIN new :
                  \/ new[j] = old[j]
                  \/ new[j] = [old[j] EXCEPT !.full_size_image = NULL]

====
